---- MODULE Spec2Model ----
(***************************************************************************)
(* The dashboard script src/host.py as a state machine.  Streamlit runs    *)
(* the whole script, top to bottom, once for every user interaction; the   *)
(* only state the script itself keeps between two runs is                  *)
(* st.session_state['analysis_result'] / ['analysis_config'].  Each action *)
(* below is one interaction followed by the complete script run.           *)
(***************************************************************************)
EXTENDS Integers, Sequences, FiniteSets, TLC

VARIABLES
    df_original,       \* the loaded table (host.py:110-114)
    selected_columns,  \* value of the column multiselect (host.py:139)
    numeric_cols,      \* host.py:175
    categorical_cols,  \* host.py:176
    date_cols,         \* host.py:179-185
    analysis_mode,     \* value of the mode radio (host.py:188)
    group_by_cols,     \* value of the grouping multiselect (host.py:202/210)
    value_col,         \* value of the value selectbox (host.py:215/222)
    agg_type,          \* value of the reducer selectbox (host.py:236)
    button,            \* the button that is down in this run, if any
    raised,            \* the pandas call of host.py:249/251 raised in this run
    notice,            \* the message of the aggregation handler (host.py:261-265)
    session_state,     \* st.session_state
    filters,           \* the dict filters (host.py:276-287)
    search,            \* value of the search box (host.py:303)
    df_filtered,       \* host.py:290-293
    df_display,        \* host.py:304-309
    shown_result,      \* the table st.dataframe shows at host.py:346
    charts,            \* the charts drawn in this run, in order
    outcome,           \* how the run ended: "done", "stopped", "fault"
    last_success       \* history: the request of the latest run that reported success

vars == <<df_original, selected_columns, numeric_cols, categorical_cols, date_cols,
          analysis_mode, group_by_cols, value_col, agg_type, button, raised, notice,
          session_state, filters, search, df_filtered, df_display, shown_result,
          charts, outcome, last_success>>

-----------------------------------------------------------------------------
(* Bounds of the model. *)

\* Largest number of rows of a loaded table.
MaxRows == 2
\* Largest number of values a user picks in one filter multiselect.
MaxAllow == 1

-----------------------------------------------------------------------------
(* Cells.  A text is a sequence of one-character strings, so that the      *)
(* substring search can look inside it.                                    *)

NA == <<"NaN">>
Text(s) == <<"str", s>>
Num(n) == <<"num", n>>
Bool(b) == <<"bool", b>>

IsNA(cell) == cell = NA
IsNum(cell) == Len(cell) = 2 /\ cell[1] = "num"
IsBool(cell) == Len(cell) = 2 /\ cell[1] = "bool"
IsText(cell) == Len(cell) = 2 /\ cell[1] = "str"

Range(s) == {s[k] : k \in DOMAIN s}

\* Python None where the script binds it to a name (host.py:222), and the
\* value of a widget the run did not reach.
NoValue == "None"

\* The two labels of the mode radio (host.py:190), by their meaning.
Simple == "simple"
Advanced == "advanced"

\* 'Semua', the sentinel of the filter multiselect (host.py:281, 285, 292).
Semua == <<"S", "e", "m", "u", "a">>

\* 'Hasil', the name of the computed column (host.py:249, 252).
Hasil == "Hasil"

-----------------------------------------------------------------------------
(* Characters: code-point order and case folding.                          *)

AsciiOrder ==
    <<"-", ".", "0", "1", "2", "3", "4", "5", "6", "7", "8", "9",
      "A", "B", "C", "D", "E", "F", "G", "H", "I", "J", "K", "L", "M",
      "N", "O", "P", "Q", "R", "S", "T", "U", "V", "W", "X", "Y", "Z",
      "a", "b", "c", "d", "e", "f", "g", "h", "i", "j", "k", "l", "m",
      "n", "o", "p", "q", "r", "s", "t", "u", "v", "w", "x", "y", "z">>

CharCode(c) == CHOOSE k \in DOMAIN AsciiOrder : AsciiOrder[k] = c

\* re.IGNORECASE on ASCII letters: "A".."Z" are 26 places before "a".."z".
Fold(c) ==
    LET k == CharCode(c)
    IN  IF k \in 13..38 THEN AsciiOrder[k + 26] ELSE c

DigitChar == <<"0", "1", "2", "3", "4", "5", "6", "7", "8", "9">>

RECURSIVE Digits(_)
Digits(n) ==
    IF n < 10 THEN <<DigitChar[n + 1]>>
    ELSE Digits(n \div 10) \o <<DigitChar[(n % 10) + 1]>>

\* str < str in Python: lexicographic by code point.
RECURSIVE TextLess(_, _)
TextLess(s, t) ==
    IF t = <<>> THEN FALSE
    ELSE IF s = <<>> THEN TRUE
    ELSE IF CharCode(s[1]) # CharCode(t[1]) THEN CharCode(s[1]) < CharCode(t[1])
    ELSE TextLess(Tail(s), Tail(t))

-----------------------------------------------------------------------------
(* Tables.  A DataFrame is its column names in order, the dtype of every   *)
(* column, and its rows in order; a row keeps its index label i.           *)

\* dtype inference of pd.read_csv (host.py:57) for one column of cells.
InferDtype(cells) ==
    IF \A k \in DOMAIN cells : IsNum(cells[k]) THEN "int64"
    ELSE IF \A k \in DOMAIN cells : IsNum(cells[k]) \/ IsNA(cells[k]) THEN "float64"
    ELSE IF \A k \in DOMAIN cells : IsBool(cells[k]) THEN "bool"
    ELSE "object"

\* The DataFrame pd.read_csv builds from rows of cells (host.py:57-58).
load_data(cols, cellrows) ==
    [columns |-> cols,
     dtypes  |-> [c \in Range(cols) |->
                    InferDtype([k \in DOMAIN cellrows |-> cellrows[k][c]])],
     rows    |-> [k \in DOMAIN cellrows |-> [i |-> k - 1, c |-> cellrows[k]]]]

\* The table of a run that did not get as far as building it.
NoFrame == [columns |-> <<>>, dtypes |-> <<>>, rows |-> <<>>]

\* df_original[selected_columns].copy() (host.py:156).
Project(frame, sel) ==
    [columns |-> sel,
     dtypes  |-> [c \in Range(sel) |-> frame.dtypes[c]],
     rows    |-> [k \in DOMAIN frame.rows |->
                    [i |-> frame.rows[k].i,
                     c |-> [c \in Range(sel) |-> frame.rows[k].c[c]]]]]

\* str(x) of one cell of a column of the given dtype, as astype(str) renders
\* it (host.py:281, 293, 305): a missing value becomes the text "nan".
StrOf(dtype, cell) ==
    IF IsNA(cell) THEN <<"n", "a", "n">>
    ELSE IF IsText(cell) THEN cell[2]
    ELSE IF IsBool(cell)
         THEN IF cell[2] THEN <<"T", "r", "u", "e">> ELSE <<"F", "a", "l", "s", "e">>
    ELSE IF dtype = "float64" THEN Digits(cell[2]) \o <<".", "0">>
    ELSE Digits(cell[2])

-----------------------------------------------------------------------------
(* Column classifier (host.py:174-185).                                    *)

\* df.select_dtypes(include=['int64', 'float64']).columns.tolist()
NumericCols(frame) ==
    SelectSeq(frame.columns, LAMBDA c : frame.dtypes[c] \in {"int64", "float64"})

\* df.select_dtypes(include=['object', 'category']).columns.tolist()
CategoricalCols(frame) ==
    SelectSeq(frame.columns, LAMBDA c : frame.dtypes[c] \in {"object", "category"})

\* A text pd.to_datetime accepts: the form the sample data uses (host.py:68).
DateTexts == {<<"2", "0", "2", "4", "-", "0", "1", "-", "0", "1">>}

\* pd.to_datetime(df[col], errors='raise') returns rather than raises
\* (host.py:181-185): numbers are read as epoch offsets and a missing value as
\* NaT; booleans raise TypeError; a text that is no date raises ValueError.
ToDatetimeSucceeds(frame, col) ==
    /\ frame.dtypes[col] # "bool"
    /\ \A k \in DOMAIN frame.rows :
          LET cell == frame.rows[k].c[col]
          IN  IsText(cell) => cell[2] \in DateTexts

DateCols(frame) ==
    SelectSeq(frame.columns, LAMBDA c : ToDatetimeSucceeds(frame, c))

-----------------------------------------------------------------------------
(* Aggregation (host.py:248-252).                                          *)

\* The reducers of agg_options (host.py:226-234) whose results are integers
\* on integer data; the model draws agg_type from these.
AggTypes == {"sum", "count", "min", "max"}

\* The grouping key of a row: its values in the grouping columns.
KeyOf(row, gb) == [j \in DOMAIN gb |-> row.c[gb[j]]]

\* df.groupby(group_by_cols) keeps the default dropna=True: a row with a
\* missing value in any grouping column belongs to no group.
HasKey(row, gb) == \A j \in DOMAIN gb : ~IsNA(row.c[gb[j]])

GroupKeys(frame, gb) ==
    {KeyOf(frame.rows[k], gb) : k \in {n \in DOMAIN frame.rows : HasKey(frame.rows[n], gb)}}

\* Tuple order of the group keys, element by element.
RECURSIVE KeyLess(_, _)
KeyLess(a, b) ==
    IF a = <<>> \/ b = <<>> THEN FALSE
    ELSE IF a[1] # b[1] THEN TextLess(a[1][2], b[1][2])
    ELSE KeyLess(Tail(a), Tail(b))

\* df.groupby keeps the default sort=True: the groups come in key order.
RECURSIVE SortKeys(_)
SortKeys(keys) ==
    IF keys = {} THEN <<>>
    ELSE LET first == CHOOSE a \in keys : \A b \in keys \ {a} : KeyLess(a, b)
         IN  <<first>> \o SortKeys(keys \ {first})

\* The rows of one group, in table order.
GroupRows(frame, gb, key) ==
    SelectSeq(frame.rows, LAMBDA r : HasKey(r, gb) /\ KeyOf(r, gb) = key)

\* The non-missing values of a column over some rows (skipna).
Present(rows, col) ==
    LET kept == SelectSeq(rows, LAMBDA r : ~IsNA(r.c[col]))
    IN  [k \in DOMAIN kept |-> kept[k].c[col][2]]

RECURSIVE SumSeq(_)
SumSeq(xs) == IF xs = <<>> THEN 0 ELSE xs[1] + SumSeq(Tail(xs))

\* SeriesGroupBy.agg(agg_type) on one group (host.py:251).
Reduce(agg, xs) ==
    IF agg = "sum" THEN Num(SumSeq(xs))
    ELSE IF xs = <<>> THEN NA
    ELSE IF agg = "min" THEN Num(CHOOSE x \in Range(xs) : \A y \in Range(xs) : x <= y)
    ELSE Num(CHOOSE x \in Range(xs) : \A y \in Range(xs) : x >= y)

\* The value of the computed column for one group (host.py:248-251):
\* .size() for 'count', the reducer over the value column otherwise.
GroupValue(frame, gb, vc, agg, key) ==
    IF agg = "count" THEN Num(Len(GroupRows(frame, gb, key)))
    ELSE Reduce(agg, Present(GroupRows(frame, gb, key), vc))

\* result_df (host.py:248-252): one row per group, the grouping columns
\* followed by 'Hasil', with a fresh index (reset_index).
Aggregate(frame, gb, vc, agg) ==
    LET keys == SortKeys(GroupKeys(frame, gb))
    IN  [columns |-> gb \o <<Hasil>>,
         dtypes  |-> [c \in Range(gb) \cup {Hasil} |->
                        IF c # Hasil THEN frame.dtypes[c]
                        ELSE IF agg = "count" THEN "int64" ELSE frame.dtypes[vc]],
         rows    |-> [k \in DOMAIN keys |->
                        [i |-> k - 1,
                         c |-> [c \in Range(gb) \cup {Hasil} |->
                                  IF c = Hasil
                                  THEN GroupValue(frame, gb, vc, agg, keys[k])
                                  ELSE LET j == CHOOSE j \in DOMAIN gb : gb[j] = c
                                       IN  keys[k][j]]]]]

-----------------------------------------------------------------------------
(* Filter and search (host.py:273-309).                                    *)

\* Max 6 filter (host.py:279).
FilterCap == 6

\* categorical_cols[:6] (host.py:279).
FilterColumns(cat) == SubSeq(cat, 1, IF Len(cat) < FilterCap THEN Len(cat) ELSE FilterCap)

\* The options of one filter multiselect (host.py:281), as a set:
\* 'Semua' and the rendered non-missing values of the column.
unique_vals(frame, col) ==
    {Semua} \cup
    {StrOf(frame.dtypes[col], frame.rows[k].c[col]) :
        k \in {n \in DOMAIN frame.rows : ~IsNA(frame.rows[n].c[col])}}

\* frame[mask]: the rows the mask keeps, in order, with their index labels.
KeepRows(frame, kept) ==
    [columns |-> frame.columns, dtypes |-> frame.dtypes, rows |-> kept]

\* ApplyFilters without the test that the list is non-empty: an empty list
\* then keeps no row.
RECURSIVE ApplyFiltersEmptyKeepsNone(_, _, _)
ApplyFiltersEmptyKeepsNone(frame, cols, flt) ==
    IF cols = <<>> THEN frame
    ELSE LET col == cols[1]
             filter_val == flt[col]
             next == IF Semua \notin filter_val
                     THEN KeepRows(frame, SelectSeq(frame.rows,
                            LAMBDA r : StrOf(frame.dtypes[col], r.c[col]) \in filter_val))
                     ELSE frame
         IN  ApplyFiltersEmptyKeepsNone(next, Tail(cols), flt)

\* The loop of host.py:291-293 over filters.items(), in insertion order.
RECURSIVE ApplyFilters(_, _, _)
ApplyFilters(frame, cols, flt) ==
    IF cols = <<>> THEN frame
    ELSE LET col == cols[1]
             filter_val == flt[col]
             next == IF Semua \notin filter_val /\ filter_val # {}
                     THEN KeepRows(frame, SelectSeq(frame.rows,
                            LAMBDA r : StrOf(frame.dtypes[col], r.c[col]) \in filter_val))
                     ELSE frame
         IN  ApplyFilters(next, Tail(cols), flt)

\* re.search(pattern, text, re.IGNORECASE), which str.contains runs with its
\* default regex=True (host.py:305): '.' stands for any character, every
\* other character of the model's queries for itself.
RegexFound(pattern, text) ==
    \E k \in 0..(Len(text) - Len(pattern)) :
        \A j \in DOMAIN pattern :
            pattern[j] = "." \/ Fold(pattern[j]) = Fold(text[k + j])

\* The mask of host.py:305: after astype(str) no cell is missing, so
\* na=False changes nothing and a missing cell is searched as "nan".
SearchMask(frame, q, row) ==
    \E c \in Range(frame.columns) : RegexFound(q, StrOf(frame.dtypes[c], row.c[c]))

\* df_display (host.py:304-309).
SearchRows(frame, q) ==
    IF q # <<>>
    THEN KeepRows(frame, SelectSeq(frame.rows, LAMBDA r : SearchMask(frame, q, r)))
    ELSE frame

-----------------------------------------------------------------------------
(* Charts (host.py:351-397 for a stored result, 418-467 for simple mode).  *)

Chart(kind, data, x, y, color, barmode, path) ==
    [kind |-> kind, data |-> data, x |-> x, y |-> y, color |-> color,
     barmode |-> barmode, path |-> path]

\* viz_col1 (host.py:353-376).
BarChart(config) ==
    IF Len(config.group_by) = 1
    THEN Chart("bar", "result_df", config.group_by[1], Hasil, Hasil, NoValue, <<>>)
    ELSE Chart("bar", "result_df", config.group_by[1], Hasil,
               IF Len(config.group_by) > 1 THEN config.group_by[2] ELSE NoValue,
               "group", <<>>)

\* ShareChart that draws the pie whatever the number of grouping columns.
ShareChartAlwaysPie(config) ==
    Chart("pie", "result_df", config.group_by[1], Hasil, NoValue, NoValue, <<>>)

\* viz_col2 (host.py:378-397): px.pie(values='Hasil', names=group_by[0]) or
\* px.sunburst(path=group_by, values='Hasil').
ShareChart(config) ==
    IF Len(config.group_by) = 1
    THEN Chart("pie", "result_df", config.group_by[1], Hasil, NoValue, NoValue, <<>>)
    ELSE Chart("sunburst", "result_df", NoValue, Hasil, NoValue, NoValue, config.group_by)

ResultCharts(config) == <<BarChart(config), ShareChart(config)>>

Prefix(s, n) == SubSeq(s, 1, IF Len(s) < n THEN Len(s) ELSE n)

RECURSIVE HistBox(_)
HistBox(cols) ==
    IF cols = <<>> THEN <<>>
    ELSE <<Chart("histogram", "df_display", cols[1], NoValue, NoValue, NoValue, <<>>),
           Chart("box", "df_display", NoValue, cols[1], NoValue, NoValue, <<>>)>>
         \o HistBox(Tail(cols))

\* Simple mode (host.py:418-467): a pie per categorical column (at most 4),
\* a histogram and a box plot per numeric column (at most 3).
AutoCharts(cat, num) ==
    [k \in DOMAIN Prefix(cat, 4) |->
        Chart("pie", "value_counts", cat[k], "Jumlah", NoValue, NoValue, <<>>)]
    \o HistBox(Prefix(num, 3))

-----------------------------------------------------------------------------
(* One run of the script.                                                  *)

\* st.session_state before the first successful aggregation.
EmptySession == [k \in {} |-> 0]

\* The dict filters before any widget is declared (host.py:276).
EmptyDict == [c \in {} |-> {}]

\* Handler that forgets the stored result when a request fails.
HandlerClearsOnFailure(df, ss, gb, vc, agg, raises) ==
    IF gb # <<>> /\ vc # NoValue
    THEN IF raises
         THEN [notice |-> "error", raised |-> TRUE, session_state |-> EmptySession]
         ELSE [notice |-> "success", raised |-> FALSE,
               session_state |->
                   [analysis_result |-> Aggregate(df, gb, vc, agg),
                    analysis_config |->
                        [group_by |-> gb, value_col |-> vc, agg_type |-> agg]]]
    ELSE [notice |-> "warning", raised |-> FALSE, session_state |-> EmptySession]

\* Handler that stores the new spec but, once a table is stored, keeps that
\* table: the cell would be merged, not replaced.
HandlerKeepsOldTable(df, ss, gb, vc, agg, raises) ==
    IF gb # <<>> /\ vc # NoValue
    THEN IF raises
         THEN [notice |-> "error", raised |-> TRUE, session_state |-> ss]
         ELSE [notice |-> "success", raised |-> FALSE,
               session_state |->
                   [analysis_result |->
                        IF ss = EmptySession THEN Aggregate(df, gb, vc, agg)
                        ELSE ss.analysis_result,
                    analysis_config |->
                        [group_by |-> gb, value_col |-> vc, agg_type |-> agg]]]
    ELSE [notice |-> "warning", raised |-> FALSE, session_state |-> ss]

\* The body of the button handler (host.py:245-265).  raises: the pandas
\* call of host.py:249/251 raised, which the except clause of host.py:262
\* catches.
Handler(df, ss, gb, vc, agg, raises) ==
    IF gb # <<>> /\ vc # NoValue
    THEN IF raises
         THEN [notice |-> "error", raised |-> TRUE, session_state |-> ss]
         ELSE [notice |-> "success", raised |-> FALSE,
               session_state |->
                   [analysis_result |-> Aggregate(df, gb, vc, agg),
                    analysis_config |->
                        [group_by |-> gb, value_col |-> vc, agg_type |-> agg]]]
    ELSE [notice |-> "warning", raised |-> FALSE, session_state |-> ss]

\* st.columns(n) raises StreamlitAPIException unless n is a positive number
\* (host.py:277, n = min(3, len(categorical_cols))).
StColumnsRaises(cat) == (IF Len(cat) < 3 THEN Len(cat) ELSE 3) < 1

\* The whole script (host.py:131-467) on the values its widgets return.
Run(orig, ss, sel, mode, gb, vc, agg, btn, raises, flt, q) ==
    LET df == Project(orig, sel)
        cat == CategoricalCols(df)
        num == NumericCols(df)
        handled == IF mode = Advanced /\ btn = "compute"
                   THEN Handler(df, ss, gb, vc, agg, raises)
                   ELSE [notice |-> "none", raised |-> FALSE, session_state |-> ss]
        filtered == ApplyFilters(df, FilterColumns(cat), flt)
        display == SearchRows(filtered, q)
        shows == "analysis_result" \in DOMAIN handled.session_state /\ mode = Advanced
        early == [selected_columns |-> sel, numeric_cols |-> <<>>,
                  categorical_cols |-> <<>>, date_cols |-> <<>>,
                  analysis_mode |-> NoValue,
                  group_by_cols |-> <<>>, value_col |-> NoValue, agg_type |-> NoValue,
                  button |-> "none", raised |-> FALSE, notice |-> "none",
                  session_state |-> ss,
                  filters |-> EmptyDict, search |-> <<>>, df_filtered |-> NoFrame,
                  df_display |-> NoFrame, shown_result |-> NoFrame, charts |-> <<>>,
                  outcome |-> "stopped"]
        upto == [early EXCEPT !.numeric_cols = num, !.categorical_cols = cat,
                              !.date_cols = DateCols(df),
                              !.analysis_mode = mode, !.group_by_cols = gb,
                              !.value_col = vc, !.agg_type = agg,
                              !.button = IF mode = Advanced THEN btn ELSE "none",
                              !.raised = handled.raised,
                              !.notice = handled.notice,
                              !.session_state = handled.session_state]
    IN  IF sel = <<>> THEN early                                  \* host.py:151-153
        ELSE IF StColumnsRaises(cat) THEN [upto EXCEPT !.outcome = "fault"]
        ELSE [upto EXCEPT
                !.filters = flt, !.search = q,
                !.df_filtered = filtered, !.df_display = display,
                !.shown_result =
                    IF shows THEN handled.session_state.analysis_result ELSE NoFrame,
                !.charts =
                    (IF shows THEN ResultCharts(handled.session_state.analysis_config)
                     ELSE <<>>)
                    \o (IF mode = Simple THEN AutoCharts(cat, num) ELSE <<>>),
                !.outcome = "done"]

-----------------------------------------------------------------------------
(* The widgets.  Streamlit keeps the value of a widget from one run to the *)
(* next while the widget is declared with the same options; a widget that  *)
(* is declared anew, or with other options, returns its default.           *)

\* The grouping multiselect, default [categorical_cols[0]] (host.py:201-210).
GroupByWidget(req, keep, cat) ==
    IF cat = <<>> THEN <<>> ELSE IF keep THEN req ELSE <<cat[1]>>

\* The value selectbox, default the first option (host.py:214-222).
ValueWidget(req, keep, num) ==
    IF num = <<>> THEN NoValue ELSE IF keep THEN req ELSE num[1]

\* The reducer selectbox, default the first key of agg_options (host.py:226-241).
AggWidget(req, keep) == IF keep THEN req ELSE "sum"

\* The filter multiselects, default ['Semua'] (host.py:279-287).
FilterWidgets(req, cat) ==
    [c \in Range(FilterColumns(cat)) |-> IF c \in DOMAIN req THEN req[c] ELSE {Semua}]

\* The values every widget returns in a run, from the values asked for.
Widgets(orig, sel, wasAdvanced, oldcat, oldnum, modeReq, gbReq, vcReq, aggReq, fltReq, qReq) ==
    LET df == Project(orig, sel)
        cat == CategoricalCols(df)
        num == NumericCols(df)
        mode == IF sel = <<>> THEN NoValue
                ELSE IF modeReq = NoValue THEN Simple ELSE modeReq
        adv == mode = Advanced
        shown == sel # <<>> /\ ~StColumnsRaises(cat)
    IN  [mode |-> mode,
         gb   |-> IF adv THEN GroupByWidget(gbReq, wasAdvanced /\ oldcat = cat, cat)
                  ELSE <<>>,
         vc   |-> IF adv THEN ValueWidget(vcReq, wasAdvanced /\ oldnum = num, num)
                  ELSE NoValue,
         agg  |-> IF adv THEN AggWidget(aggReq, wasAdvanced) ELSE NoValue,
         flt  |-> IF shown THEN FilterWidgets(fltReq, cat) ELSE EmptyDict,
         q    |-> IF shown THEN qReq ELSE <<>>]

\* The request a run acted on: what the three widgets of host.py:199-241 held.
Request(r) ==
    [group_by |-> r.group_by_cols, value_col |-> r.value_col, agg_type |-> r.agg_type]

\* No request yet.
NoRequest == [group_by |-> <<>>, value_col |-> NoValue, agg_type |-> NoValue]

\* The state a run leaves behind.
Shows(r) ==
    /\ selected_columns' = r.selected_columns
    /\ numeric_cols' = r.numeric_cols
    /\ categorical_cols' = r.categorical_cols
    /\ date_cols' = r.date_cols
    /\ analysis_mode' = r.analysis_mode
    /\ group_by_cols' = r.group_by_cols
    /\ value_col' = r.value_col
    /\ agg_type' = r.agg_type
    /\ button' = r.button
    /\ raised' = r.raised
    /\ notice' = r.notice
    /\ session_state' = r.session_state
    /\ filters' = r.filters
    /\ search' = r.search
    /\ df_filtered' = r.df_filtered
    /\ df_display' = r.df_display
    /\ shown_result' = r.shown_result
    /\ charts' = r.charts
    /\ outcome' = r.outcome
    /\ last_success' = IF r.notice = "success" THEN Request(r) ELSE last_success
    /\ UNCHANGED df_original

\* One interaction: the widgets hold the values asked for, and the script runs.
Interact(sel, modeReq, gbReq, vcReq, aggReq, btn, raises, fltReq, qReq) ==
    LET w == Widgets(df_original, sel, analysis_mode = Advanced,
                     categorical_cols, numeric_cols,
                     modeReq, gbReq, vcReq, aggReq, fltReq, qReq)
    IN  Shows(Run(df_original, session_state, sel, w.mode, w.gb, w.vc, w.agg,
                  btn, raises, w.flt, w.q))

-----------------------------------------------------------------------------
(* The user's interactions.  Each changes one widget or presses one button *)
(* and is followed by the complete run of the script.                      *)

\* All orders of all subsets of S: what a multiselect over S can return.
Arrangements(S) ==
    {s \in UNION {[1..n -> S] : n \in 0..Cardinality(S)} :
        \A j, k \in DOMAIN s : j # k => s[j] # s[k]}

Remove(s, c) == SelectSeq(s, LAMBDA e : e # c)

\* The column multiselect (host.py:139-144): one more column, at the end.
SelectColumn(c) ==
    /\ c \in Range(df_original.columns) \ Range(selected_columns)
    /\ Interact(Append(selected_columns, c), analysis_mode, group_by_cols, value_col,
                agg_type, "none", FALSE, filters, search)

\* The column multiselect (host.py:139-144): one column fewer.
DeselectColumn(c) ==
    /\ c \in Range(selected_columns)
    /\ Interact(Remove(selected_columns, c), analysis_mode, group_by_cols, value_col,
                agg_type, "none", FALSE, filters, search)

\* The button of host.py:147-149: it assigns the local selected_columns and
\* calls st.rerun(), which abandons this run and starts the script again,
\* where the multiselect returns its own, unchanged, value.
PressSelectAll ==
    Interact(selected_columns, analysis_mode, group_by_cols, value_col,
             agg_type, "none", FALSE, filters, search)

\* The mode radio (host.py:188-192).
SetMode(m) ==
    /\ outcome # "stopped"
    /\ m \in {Simple, Advanced} \ {analysis_mode}
    /\ Interact(selected_columns, m, group_by_cols, value_col,
                agg_type, "none", FALSE, filters, search)

\* The grouping multiselect (host.py:202-207).
SetGroupBy(g) ==
    /\ analysis_mode = Advanced
    /\ g \in Arrangements(Range(categorical_cols))
    /\ g # group_by_cols
    /\ Interact(selected_columns, analysis_mode, g, value_col,
                agg_type, "none", FALSE, filters, search)

\* The value selectbox (host.py:215-219).
SetValueCol(v) ==
    /\ analysis_mode = Advanced
    /\ v \in Range(numeric_cols) \ {value_col}
    /\ Interact(selected_columns, analysis_mode, group_by_cols, v,
                agg_type, "none", FALSE, filters, search)

\* The reducer selectbox (host.py:236-241).
SetAggType(a) ==
    /\ analysis_mode = Advanced
    /\ a \in AggTypes \ {agg_type}
    /\ Interact(selected_columns, analysis_mode, group_by_cols, value_col,
                a, "none", FALSE, filters, search)

\* The button of host.py:244.
PressCompute(raises) ==
    /\ analysis_mode = Advanced
    /\ Interact(selected_columns, analysis_mode, group_by_cols, value_col,
                agg_type, "compute", raises, filters, search)

\* One filter multiselect (host.py:282-287).
SetFilter(col, allow) ==
    /\ outcome = "done"
    /\ col \in DOMAIN filters
    /\ allow \subseteq unique_vals(Project(df_original, selected_columns), col)
    /\ Cardinality(allow) <= MaxAllow
    /\ allow # filters[col]
    /\ Interact(selected_columns, analysis_mode, group_by_cols, value_col,
                agg_type, "none", FALSE, [filters EXCEPT ![col] = allow], search)

\* The search box (host.py:303).
SetSearch(q) ==
    /\ outcome = "done"
    /\ q # search
    /\ Interact(selected_columns, analysis_mode, group_by_cols, value_col,
                agg_type, "none", FALSE, filters, q)

-----------------------------------------------------------------------------
(* Loaded tables and the first run.                                        *)

\* Every table of 1..n rows over the columns cols whose cells come from
\* pool[c] for column c.
Tables(cols, pool, n) ==
    LET rowset == {r \in [Range(cols) -> UNION {pool[c] : c \in Range(cols)}] :
                      \A c \in Range(cols) : r[c] \in pool[c]}
    IN  UNION {{load_data(cols, cellrows) : cellrows \in [1..m -> rowset]} : m \in 1..n}

\* The first run of a session: every widget returns its default
\* (host.py:142 default=all_columns, the radio's first label, an empty box).
FirstRun(orig) ==
    LET w == Widgets(orig, orig.columns, FALSE, <<>>, <<>>, NoValue, <<>>, NoValue,
                     NoValue, EmptyDict, <<>>)
    IN  Run(orig, EmptySession, orig.columns, w.mode, w.gb, w.vc, w.agg,
            "none", FALSE, w.flt, w.q)

Starts(tables) ==
    /\ df_original \in tables
    /\ selected_columns = FirstRun(df_original).selected_columns
    /\ numeric_cols = FirstRun(df_original).numeric_cols
    /\ categorical_cols = FirstRun(df_original).categorical_cols
    /\ date_cols = FirstRun(df_original).date_cols
    /\ analysis_mode = FirstRun(df_original).analysis_mode
    /\ group_by_cols = FirstRun(df_original).group_by_cols
    /\ value_col = FirstRun(df_original).value_col
    /\ agg_type = FirstRun(df_original).agg_type
    /\ button = FirstRun(df_original).button
    /\ raised = FirstRun(df_original).raised
    /\ notice = FirstRun(df_original).notice
    /\ session_state = FirstRun(df_original).session_state
    /\ filters = FirstRun(df_original).filters
    /\ search = FirstRun(df_original).search
    /\ df_filtered = FirstRun(df_original).df_filtered
    /\ df_display = FirstRun(df_original).df_display
    /\ shown_result = FirstRun(df_original).shown_result
    /\ charts = FirstRun(df_original).charts
    /\ outcome = FirstRun(df_original).outcome
    /\ last_success = NoRequest

TA == <<"A">>
TB == <<"B">>
TX == <<"x">>
TY == <<"y">>

\* The table of a session: Region=[A,A,B], Sales=[10,20,30], and a second
\* text column, so that two grouping columns can be chosen.  Sales is the
\* only numeric column, so the value selectbox has one option here; the
\* choice of a value column is exercised under SpecAgg.
SessionTables ==
    {load_data(<<"Region", "Type", "Sales">>,
               <<[Region |-> Text(TA), Type |-> Text(TX), Sales |-> Num(10)],
                 [Region |-> Text(TA), Type |-> Text(TY), Sales |-> Num(20)],
                 [Region |-> Text(TB), Type |-> Text(TX), Sales |-> Num(30)]>>)}

\* The filter the user of a session works with.
SessionFilter == "Region"

Init == Starts(SessionTables)

Next ==
    \/ \E c \in Range(df_original.columns) : SelectColumn(c)
    \/ \E c \in Range(df_original.columns) : DeselectColumn(c)
    \/ PressSelectAll
    \/ \E m \in {Simple, Advanced} : SetMode(m)
    \/ \E g \in Arrangements(Range(df_original.columns)) : SetGroupBy(g)
    \/ \E a \in AggTypes : SetAggType(a)
    \/ \E raises \in BOOLEAN : PressCompute(raises)
    \/ \E allow \in SUBSET unique_vals(df_original, SessionFilter) :
          SetFilter(SessionFilter, allow)

Spec == Init /\ [][Next]_vars

-----------------------------------------------------------------------------
(* Aggregation requests over tables with missing values.                   *)

\* Tables with one text column and one number column, either with gaps.
AggTables ==
    Tables(<<"Region", "Sales">>,
           [c \in {"Region", "Sales"} |->
               IF c = "Region" THEN {Text(TA), Text(TB), NA}
               ELSE {Num(1), Num(2), NA}],
           MaxRows)

InitAgg == Starts(AggTables)

NextAgg ==
    \/ \E c \in Range(df_original.columns) : DeselectColumn(c)
    \/ \E m \in {Simple, Advanced} : SetMode(m)
    \/ \E g \in Arrangements(Range(df_original.columns)) : SetGroupBy(g)
    \/ \E v \in Range(df_original.columns) : SetValueCol(v)
    \/ \E a \in AggTypes : SetAggType(a)
    \/ \E raises \in BOOLEAN : PressCompute(raises)

SpecAgg == InitAgg /\ [][NextAgg]_vars

-----------------------------------------------------------------------------
(* Column selection, filters and search over tables with missing values    *)
(* and a boolean column.                                                   *)

FilterTables ==
    Tables(<<"Region", "Type", "Flag">>,
           [c \in {"Region", "Type", "Flag"} |->
               IF c = "Region" THEN {Text(TA), Text(TB), NA}
               ELSE IF c = "Type" THEN {Text(TX), Text(TY)}
               ELSE {Bool(TRUE)}],
           MaxRows)

\* What the user types into the search box.
Queries == {<<>>, <<"n", "a", "n">>, <<"a">>}

InitFilter == Starts(FilterTables)

NextFilter ==
    \/ \E c \in Range(df_original.columns) : DeselectColumn(c)
    \/ \E col \in Range(df_original.columns) :
          \E allow \in SUBSET unique_vals(df_original, col) : SetFilter(col, allow)
    \/ \E q \in Queries : SetSearch(q)

SpecFilter == InitFilter /\ [][NextFilter]_vars

-----------------------------------------------------------------------------
(* Properties.                                                             *)

\* The table the run works on (host.py:156).
df == Project(df_original, selected_columns)

\* The computed column of a result table, top to bottom.
HasilOf(frame) == [k \in DOMAIN frame.rows |-> frame.rows[k].c[Hasil][2]]

\* The user asked for a count by one grouping column, and pandas did not raise.
CountRequest ==
    button = "compute" /\ agg_type = "count" /\ Len(group_by_cols) = 1 /\ ~raised

\* C1: a count by one grouping column g succeeds whether or not there is a
\* value column, gives one row per distinct value of g (a missing value is
\* one of them), and the counts add up to the number of rows of the table.
C1_CountNeedsNoValueColumn ==
    CountRequest =>
        /\ notice = "success"
        /\ Len(session_state.analysis_result.rows)
              = Cardinality({df.rows[k].c[group_by_cols[1]] : k \in DOMAIN df.rows})
        /\ SumSeq(HasilOf(session_state.analysis_result)) = Len(df.rows)

\* The user asked for a sum by one grouping column, and it was computed.
SumRequest ==
    button = "compute" /\ agg_type = "sum" /\ Len(group_by_cols) = 1
        /\ notice = "success"

\* C2: the sums of the groups add up to the sum of all non-missing values of
\* the value column, whatever the grouping column holds.
C2_SumIsInvariantUnderGrouping ==
    SumRequest =>
        SumSeq(HasilOf(session_state.analysis_result))
            = SumSeq(Present(df.rows, value_col))

\* The request of this run failed validation, or its computation raised.
FailedRequest ==
    button = "compute" /\ (group_by_cols = <<>> \/ value_col = NoValue \/ raised)

\* C3: a request that fails validation or raises is reported as a failure
\* and leaves the stored result and spec as they were, so a result that was
\* displayed before the request is displayed after it.
C3_FailedRequestKeepsCell ==
    [][FailedRequest' =>
          /\ notice' \in {"warning", "error"}
          /\ session_state' = session_state
          /\ (session_state # EmptySession
                /\ shown_result = session_state.analysis_result)
                => shown_result' = shown_result]_vars

\* A request has failed validation while an earlier result is stored and
\* displayed.
C3_Witness ==
    /\ FailedRequest
    /\ notice = "warning"
    /\ session_state # EmptySession
    /\ shown_result = session_state.analysis_result

\* C4: the cell is absent exactly while no request has succeeded; otherwise
\* it holds the spec of the latest successful request together with the
\* table computed for that spec, whose columns are the grouping columns
\* followed by the result column.
C4_CellHoldsLatestSuccess ==
    /\ session_state = EmptySession <=> last_success = NoRequest
    /\ last_success # NoRequest =>
          /\ DOMAIN session_state = {"analysis_result", "analysis_config"}
          /\ session_state.analysis_config = last_success
          /\ session_state.analysis_result
                = Aggregate(df_original, last_success.group_by,
                            last_success.value_col, last_success.agg_type)
          /\ session_state.analysis_result.columns
                = last_success.group_by \o <<Hasil>>

\* The cell holds a count by two columns while the widgets have moved on to
\* another request, which has failed.
C4_Witness ==
    /\ session_state # EmptySession
    /\ last_success.agg_type = "count"
    /\ Len(last_success.group_by) = 2
    /\ notice = "warning"
    /\ agg_type # "count"

\* The section of host.py:328-408 was drawn in this run.
ResultSectionShown ==
    outcome = "done" /\ analysis_mode = Advanced /\ session_state # EmptySession

\* The charts of this run that draw the aggregation result.
ResultChartsDrawn == SelectSeq(charts, LAMBDA ch : ch.data = "result_df")

\* C6: the charts of a stored result depend on the number of its grouping
\* columns only: one bar chart and one pie for one column; one grouped bar
\* chart (x the first column, series the second) and one sunburst over all
\* columns for two or more; and no other chart of the result.
C6_ChartsByGroupingCount ==
    /\ ~ResultSectionShown => ResultChartsDrawn = <<>>
    /\ ResultSectionShown =>
          LET gb == session_state.analysis_config.group_by
              drawn == ResultChartsDrawn
          IN  /\ Len(drawn) = 2
              /\ drawn[1].kind = "bar" /\ drawn[1].x = gb[1] /\ drawn[1].y = Hasil
              /\ Len(gb) = 1 =>
                    /\ drawn[1].barmode = NoValue
                    /\ drawn[2].kind = "pie"
                    /\ drawn[2].x = gb[1] /\ drawn[2].y = Hasil
              /\ Len(gb) >= 2 =>
                    /\ drawn[1].barmode = "group" /\ drawn[1].color = gb[2]
                    /\ drawn[2].kind = "sunburst"
                    /\ drawn[2].path = gb /\ drawn[2].y = Hasil

\* A result grouped by two columns is drawn.
C6_Witness ==
    ResultSectionShown /\ Len(session_state.analysis_config.group_by) = 2

\* C5: every selected column is numeric or categorical and not both, and
\* every date-like column is a column of the table.
C5_ClassifierPartitions ==
    outcome # "stopped" =>
        /\ \A c \in Range(selected_columns) :
              (c \in Range(numeric_cols)) # (c \in Range(categorical_cols))
        /\ Range(date_cols) \subseteq Range(df_original.columns)

\* The allow-list of a column constrains the rows.
Constrains(col) ==
    col \in DOMAIN filters /\ filters[col] # {} /\ Semua \notin filters[col]

\* A row passes every constraining allow-list.
Allowed(row) ==
    \A col \in Range(categorical_cols) :
        Constrains(col) => StrOf(df.dtypes[col], row.c[col]) \in filters[col]

\* C7: the filter keeps exactly the rows that pass the allow-list of every
\* constrained categorical column, in table order; with no constraint and
\* an empty query the output is the input.
C7_FilterKeepsAllowedRows ==
    outcome = "done" =>
        /\ df_filtered.columns = df.columns
        /\ df_filtered.rows = SelectSeq(df.rows, Allowed)
        /\ ((\A col \in Range(categorical_cols) : ~Constrains(col)) /\ search = <<>>)
              => df_display = df

\* Two columns are constrained at once, and some row passes while another
\* does not.
C7_Witness ==
    /\ outcome = "done"
    /\ Cardinality({col \in Range(categorical_cols) : Constrains(col)}) = 2
    /\ Len(df_filtered.rows) = 1
    /\ Len(df.rows) = 2

\* q occurs in text, letter case aside, with every character standing for itself.
OccursIn(q, text) ==
    \E k \in 0..(Len(text) - Len(q)) :
        \A j \in DOMAIN q : Fold(q[j]) = Fold(text[k + j])

\* C8: a row the search keeps has a non-missing cell that contains the query.
C8_MissingNeverMatches ==
    (outcome = "done" /\ search # <<>>) =>
        \A k \in DOMAIN df_display.rows :
            \E c \in Range(df_display.columns) :
                LET cell == df_display.rows[k].c[c]
                IN  ~IsNA(cell) /\ OccursIn(search, StrOf(df_display.dtypes[c], cell))

\* C9: with at least one column selected, the run gets through the filter
\* stage and produces the filtered table.
C9_FilterStageTotal ==
    selected_columns # <<>> => (outcome = "done" /\ df_filtered # NoFrame)

\* C10: the result a successful request stores is the aggregate of the rows
\* that pass the filters of the same run.
C10_AggregatesFilteredView ==
    (notice = "success" /\ outcome = "done") =>
        session_state.analysis_result
            = Aggregate(df_filtered, group_by_cols, value_col, agg_type)

\* The position of the first row of the table that carries the grouping key.
FirstSeen(frame, gb, key) ==
    CHOOSE k \in DOMAIN frame.rows :
        /\ HasKey(frame.rows[k], gb) /\ KeyOf(frame.rows[k], gb) = key
        /\ \A n \in 1..(k - 1) :
              ~(HasKey(frame.rows[n], gb) /\ KeyOf(frame.rows[n], gb) = key)

\* C11: the rows of a computed result come in the order in which their
\* grouping keys are first seen in the table: a key first seen in an earlier
\* row has the earlier output row.
C11_RowsInFirstSeenOrder ==
    (button = "compute" /\ notice = "success") =>
        LET result_df == session_state.analysis_result
        IN  \A p, q \in DOMAIN result_df.rows :
                FirstSeen(df, group_by_cols, KeyOf(result_df.rows[p], group_by_cols))
                    < FirstSeen(df, group_by_cols, KeyOf(result_df.rows[q], group_by_cols))
                => p < q

====
